---------------------------- MODULE Spec2Model ----------------------------
(***************************************************************************)
(* raychip-8 (src/main.c): a CHIP-8 interpreter.  The module models the    *)
(* machine state of main.c (its globals and the instruction descriptor of  *)
(* main), the start-up code, the host's input poll and one action per      *)
(* instruction handler; a cycle is parse_instruction, execute_instruction  *)
(* and increment_program_counter taken together, as in main's loop.        *)
(***************************************************************************)
EXTENDS Integers, Sequences, FiniteSets, TLC

(***************************************************************************)
(* Program constants (#define lines of main.c).                            *)
(***************************************************************************)
C8_WIDTH == 64
C8_HEIGHT == 32
C8_MEMORY == 4096
C8_START == 512
C8_STACK_SIZE == 16
C8_V_REGISTER_COUNT == 16
C8_VF == 15
C8_V0 == 0
\* bool C8_Keyboard[0xF]: the array has 15 elements
C8_KEYBOARD_SIZE == 15

\* C8_FONT_0_ADDR .. C8_FONT_F_ADDR, indexed 1..16
C8_FONT_ADDR ==
    << 0, 5, 10, 15, 20, 25, 30, 35, 40, 45, 50, 55, 60, 65, 70, 75 >>

\* the bytes load_hexfont_sprites stores, digit 0 first, 5 bytes a digit
FontBytes ==
    << 240, 144, 144, 144, 240,    32,  96,  32,  32, 112,
       240,  16, 240, 128, 240,   240,  16, 240,  16, 240,
       144, 144, 240,  16,  16,   240, 128, 240,  16, 240,
       240, 128, 240, 144, 240,   240,  16,  32,  64,  64,
       240, 144, 240, 144, 240,   240, 144, 240,  16, 240,
       240, 144, 240, 144, 144,   224, 144, 224, 144, 224,
       240, 128, 128, 128, 240,   224, 144, 144, 144, 224,
       240, 128, 240, 128, 240,   240, 128, 240, 128, 128 >>

(***************************************************************************)
(* Fixed-width arithmetic of the C types.                                  *)
(***************************************************************************)
\* conversion to unsigned char
U8(n) == n % 256

\* conversion to unsigned short
U16(n) == n % 65536

RECURSIVE BitAndN(_, _, _)
BitAndN(a, b, n) ==
    IF n = 0 \/ a = 0 \/ b = 0 THEN 0
    ELSE (IF a % 2 = 1 /\ b % 2 = 1 THEN 1 ELSE 0)
         + 2 * BitAndN(a \div 2, b \div 2, n - 1)

RECURSIVE BitOrN(_, _, _)
BitOrN(a, b, n) ==
    IF n = 0 \/ (a = 0 /\ b = 0) THEN 0
    ELSE (IF a % 2 = 1 \/ b % 2 = 1 THEN 1 ELSE 0)
         + 2 * BitOrN(a \div 2, b \div 2, n - 1)

RECURSIVE BitXorN(_, _, _)
BitXorN(a, b, n) ==
    IF n = 0 \/ (a = 0 /\ b = 0) THEN 0
    ELSE (IF (a % 2) # (b % 2) THEN 1 ELSE 0)
         + 2 * BitXorN(a \div 2, b \div 2, n - 1)

\* C's & | ^ on operands promoted to int; every operand here is below 2^16
BitAnd(a, b) == BitAndN(a, b, 16)
BitOr(a, b) == BitOrN(a, b, 16)
BitXor(a, b) == BitXorN(a, b, 16)

\* C's >> and << on non-negative ints
Shr(a, n) == a \div (2 ^ n)
Shl(a, n) == a * (2 ^ n)

(***************************************************************************)
(* Bounds of the model.                                                    *)
(***************************************************************************)
\* deepest chain of nested subroutine calls in the call programs
MaxNest == 17
\* most host keys held down at one poll of the keyboard
MaxKeysDown == 1
\* most rows of a sprite in the draw programs
MaxRows == 2

(***************************************************************************)
(* Values an out-of-bounds or uninitialised read may deliver.  The C       *)
(* standard leaves them undefined; the model draws them from these sets.   *)
(***************************************************************************)
\* current_instruction.skip is never initialised (main.c:271)
UninitSkip == {0, 255}
\* an unsigned short read outside C8_STACK
Garbage16 == {0, 512, 65535}
\* an unsigned char read outside C8_RAM
Garbage8 == {0, 255}

VARIABLES
    C8_RAM,        \* unsigned char C8_RAM[4096]: the function from the addresses of
                   \* its nonzero bytes to those bytes (every other byte is 0)
    C8_V,          \* unsigned char C8_V[16]
    C8_I,          \* unsigned short C8_I
    C8_ST,         \* unsigned char C8_ST
    C8_DT,         \* unsigned char C8_DT
    C8_PC,         \* unsigned short C8_PC
    C8_SP,         \* unsigned char C8_SP
    C8_STACK,      \* unsigned short C8_STACK[16]
    C8_Buffer,     \* bool C8_Buffer[32][64]: the set of flat indices row*64+col that are true
    C8_Keyboard,   \* bool C8_Keyboard[15]
    skip,          \* current_instruction.skip, the one descriptor field that outlives a cycle
    status,        \* "running", or "crashed" after a call through a null table slot
    fault,         \* the kinds of out-of-bounds access performed so far
    last,          \* observation: the last cycle executed
    calls,         \* observation: addresses of the CALLs not yet returned from, newest first
    drawn,         \* observation: the index pairs <<ypos, xpos>> the last DRW applied to C8_Buffer
    rom            \* observation: the file data load_rom was handed

vars == << C8_RAM, C8_V, C8_I, C8_ST, C8_DT, C8_PC, C8_SP, C8_STACK,
           C8_Buffer, C8_Keyboard, skip, status, fault, last, calls, drawn, rom >>


(***************************************************************************)
(* Program images: the files load_rom may find.  An image is a sequence of *)
(* bytes; the families below are the programs the model runs.              *)
(***************************************************************************)
\* a 16-bit instruction word as its two bytes, most significant first
Word(w) == << w \div 256, w % 256 >>

\* the word with nibbles a b c d
Nib(a, b, c, d) == ((a * 16 + b) * 16 + c) * 16 + d

RECURSIVE Words(_)
Words(ws) == IF ws = << >> THEN << >> ELSE Word(Head(ws)) \o Words(Tail(ws))

RegSample == {0, 1, 15}
ByteSample == {0, 1, 127, 128, 129, 255}
ByteSample2 == {1, 128, 255}

\* 6xkk: Vx := kk
LdImm(x, kk) == Nib(6, x, 0, 0) + kk

\* two registers loaded, then one register-register instruction: the mapped
\* 8xyn, 5xy0 and 9xy0
TwoRegPrograms ==
    UNION { { Words(<< LdImm(x, a), LdImm(y, b), op >>) :
                op \in { Nib(8, x, y, n) : n \in (0..7) \cup {14} }
                       \cup { Nib(5, x, y, 0), Nib(9, x, y, 0) } } :
            x \in RegSample, y \in RegSample, a \in ByteSample, b \in ByteSample2 }

\* one register loaded, then one instruction on it: 3xkk, 4xkk, 7xkk, the
\* Exkk and the Fxkk
OneRegPrograms ==
    UNION { { Words(<< LdImm(x, a), op >>) :
                op \in { Nib(h, x, 0, 0) + kk : h \in {3, 4, 7}, kk \in ByteSample2 }
                       \cup { Nib(14, x, 0, 0) + kk : kk \in {158, 161} }
                       \cup { Nib(15, x, 0, 0) + kk :
                                kk \in {7, 10, 21, 24, 30, 41, 51, 85, 101} } } :
            x \in RegSample, a \in ByteSample }

\* Cxkk: a random byte under a mask
RandomPrograms ==
    { Words(<< Nib(12, x, 0, 0) + kk >>) : x \in RegSample, kk \in {0, 15, 129} }

\* one instruction with no handler: 0nnn other than 00E0 and 00EE, 8xy8..8xyD
\* and 8xyF, Exkk and Fxkk outside the mapped bytes
UnmappedPrograms ==
    { Words(<< op >>) :
        op \in { 0, 1, 224 + 1, 768 } \cup { Nib(8, 0, 1, n) : n \in (8..13) \cup {15} }
               \cup { Nib(14, 0, 0, 0), Nib(14, 0, 9, 15), Nib(15, 0, 0, 0), Nib(15, 0, 6, 6) } }

\* V0, V1 loaded, I set, then one instruction that uses I
MemPrograms ==
    { Words(<< LdImm(0, a), LdImm(1, 7), Nib(10, 0, 0, 0) + nnn, Nib(15, x, 0, 0) + kk >>) :
        a \in {0, 129, 255}, nnn \in {768, 4095}, x \in RegSample,
        kk \in {30, 41, 51, 85, 101} }

\* V0, V1 loaded, I set, V0..Vx stored, V0 and V1 overwritten, V0..Vx read back
RoundTripPrograms ==
    { Words(<< LdImm(0, a), LdImm(1, 7), Nib(10, 0, 0, 0) + nnn,
               Nib(15, x, 5, 5), LdImm(0, 85), LdImm(1, 102), Nib(15, x, 6, 5) >>) :
        a \in {1, 255}, nnn \in {768, 4080}, x \in RegSample }

\* a skip instruction as the first instruction: 3000, 4000, 5010, 9010, E09E,
\* E0A1
SkipFirstPrograms ==
    { Words(<< op >>) :
        op \in { Nib(3, 0, 0, 0), Nib(4, 0, 0, 0), Nib(5, 0, 1, 0), Nib(9, 0, 1, 0),
                 Nib(14, 0, 9, 14), Nib(14, 0, 10, 1) } }

\* jumps: 1nnn at 0x200 and at 0x202, and Bnnn after V0 is loaded
JumpPrograms ==
    { Words(<< Nib(1, 0, 0, 0) + nnn >>) : nnn \in {512, 516, 769, 4095} }
    \cup { Words(<< LdImm(0, 0), Nib(1, 0, 0, 0) + nnn >>) : nnn \in {512, 518} }
    \cup { Words(<< LdImm(0, a), Nib(11, 0, 0, 0) + nnn >>) :
             a \in {0, 1, 255}, nnn \in {516, 4095} }

\* a chain of k nested calls: the main program at 0x200 calls subroutine 1 and
\* then loops at 0x202; subroutine j, at 0x200 + 4j, calls subroutine j + 1 and
\* returns; subroutine k only returns
SubAddr(j) == C8_START + 4 * j

CallProgram(k) ==
    Words(<< Nib(2, 0, 0, 0) + SubAddr(1), Nib(1, 0, 0, 0) + C8_START + 2 >>)
    \o Words([ i \in 1..(2 * k) |->
                 IF i % 2 = 1
                 THEN (IF (i + 1) \div 2 < k
                       THEN Nib(2, 0, 0, 0) + SubAddr((i + 1) \div 2 + 1)
                       ELSE 238)
                 ELSE (IF i \div 2 < k THEN 238 ELSE 0) ])

\* the call chains, a lone RET (00EE), a lone CLS (00E0), and a RET followed
\* by a CALL (00EE, 2204)
CallPrograms ==
    { CallProgram(k) : k \in 1..MaxNest }
    \cup { Words(<< 238 >>), Words(<< 224 >>),
           Words(<< 238, Nib(2, 0, 0, 0) + C8_START + 4 >>) }

\* sprite rows the draw programs use
SpriteRows == {1, 128, 255}

\* sprites of up to MaxRows rows: the last row and the rows before it chosen
Sprites ==
    UNION { { [ i \in 1..n |-> IF i = n THEN r[2] ELSE r[1] ] :
                r \in SpriteRows \X SpriteRows } : n \in 0..MaxRows }

\* where a draw program keeps its sprite
SpriteAddr == C8_START + 14

\* the registers holding the coordinates, and the coordinates
DrawRegisters == { << 0, 1 >>, << 15, 1 >>, << 1, 15 >> }
DrawPositions == { << 0, 0 >>, << 60, 0 >>, << 0, 31 >>, << 60, 31 >>, << 250, 200 >> }

\* Vx, Vy loaded, I set to the sprite, the sprite of n rows drawn twice, then
\* the display cleared; the sprite's bytes follow at SpriteAddr
DrawPrograms ==
    { Words(<< LdImm(xy[1], at[1]), LdImm(xy[2], at[2]), Nib(10, 0, 0, 0) + SpriteAddr,
               Nib(13, xy[1], xy[2], Len(sp)), Nib(13, xy[1], xy[2], Len(sp)),
               224, 0 >>) \o sp :
        xy \in DrawRegisters, at \in DrawPositions, sp \in Sprites }

\* V0 = 0xF, then a skip on key F
KeyPrograms ==
    { Words(<< LdImm(0, 15), Nib(14, 0, 0, 0) + kk >>) : kk \in {158, 161} }

\* the delay timer set from V0, then read into V1 in a loop:
\* 0x200 LD V0,a; 0x202 LD DT,V0; 0x204 LD V1,DT; 0x206 JP 0x204
TimerPrograms ==
    { Words(<< LdImm(0, a), Nib(15, 0, 1, 5), Nib(15, 1, 0, 7),
               Nib(1, 0, 0, 0) + C8_START + 4 >>) : a \in ByteSample }

\* as test_draw_font does: I at the sprite of digit d, then D015 with V0 = V1 = 0
FontPrograms ==
    { Words(<< Nib(10, 0, 0, 0) + C8_FONT_ADDR[d + 1], Nib(13, 0, 1, 5) >>) : d \in 0..15 }

Programs ==
    TwoRegPrograms \cup OneRegPrograms \cup RandomPrograms \cup UnmappedPrograms
    \cup MemPrograms \cup JumpPrograms \cup CallPrograms \cup DrawPrograms
    \cup FontPrograms \cup KeyPrograms \cup TimerPrograms \cup RoundTripPrograms
    \cup SkipFirstPrograms

\* the longest image that fits between C8_START and the end of C8_RAM
MaxImage == C8_MEMORY - C8_START

\* images of MaxImage bytes and of one byte more: zeros, the last byte 255
LongFiles ==
    { [ i \in 1..L |-> IF i = L THEN 255 ELSE 0 ] : L \in { MaxImage, MaxImage + 1 } }

\* what LoadFileData may hand to load_rom: a program, or NULL (no file, or an
\* empty one), written << >>
Files == Programs \cup LongFiles \cup { << >> }

(***************************************************************************)
(* C8_RAM.                                                                 *)
(***************************************************************************)
\* the byte at address a < C8_MEMORY
Mem(ram, a) == IF a \in DOMAIN ram THEN ram[a] ELSE 0

\* C8_RAM[a] as an rvalue; g is what a read past the array delivers
ReadRAM(ram, a, g) == IF a < C8_MEMORY THEN Mem(ram, a) ELSE g

\* C8_RAM[a] = val; a write past the array leaves C8_RAM as it is
WriteRAM(ram, a, val) ==
    IF a >= C8_MEMORY THEN ram
    ELSE IF val = 0 THEN [ b \in DOMAIN ram \ {a} |-> ram[b] ]
    ELSE [ b \in DOMAIN ram \cup {a} |-> IF b = a THEN val ELSE ram[b] ]

(***************************************************************************)
(* Start-up: the globals' initialisers, load_hexfont_sprites, load_rom.    *)
(***************************************************************************)
\* load_hexfont_sprites: digit d's 5 bytes go to C8_FONT_ADDR[d + 1] .. + 4
load_hexfont_sprites(ram) ==
    LET written == { C8_FONT_ADDR[d + 1] + j : d \in 0..15, j \in 0..4 }
        digit(a) == CHOOSE d \in 0..15 :
                        C8_FONT_ADDR[d + 1] <= a /\ a < C8_FONT_ADDR[d + 1] + 5
        new(a) == IF a \in written
                  THEN FontBytes[5 * digit(a) + (a - C8_FONT_ADDR[digit(a) + 1]) + 1]
                  ELSE Mem(ram, a)
    IN [ a \in { c \in DOMAIN ram \cup written : new(c) # 0 } |-> new(a) ]

\* the loop of load_rom: byte i of the file goes to C8_RAM[C8_START + i];
\* a write past the array leaves C8_RAM as it is
load_rom(ram, filedata) ==
    LET written == { C8_START + i : i \in 0..(Len(filedata) - 1) }
                       \cap (0..(C8_MEMORY - 1))
        new(a) == IF a \in written THEN filedata[a - C8_START + 1] ELSE Mem(ram, a)
    IN [ a \in { c \in DOMAIN ram \cup written : new(c) # 0 } |-> new(a) ]

\* C8_RAM when load_rom is called: zero-initialised, then the font
FontRAM == load_hexfont_sprites(<< >>)

\* whether load_rom writes past the end of C8_RAM
load_rom_overruns(filedata) == C8_START + Len(filedata) > C8_MEMORY

\* no cycle executed yet
NoCycle == [ op |-> "none", pc |-> 0, opcode |-> 0, x |-> 0 ]

Init ==
    /\ \E filedata \in Files :
         /\ C8_RAM = load_rom(FontRAM, filedata)
         /\ fault = IF load_rom_overruns(filedata) THEN {"C8_RAM"} ELSE {}
         /\ rom = filedata
    /\ C8_V = [ r \in 0..(C8_V_REGISTER_COUNT - 1) |-> 0 ]
    /\ C8_I = 0
    /\ C8_ST = 0
    /\ C8_DT = 0
    /\ C8_PC = C8_START
    /\ C8_SP = 0
    /\ C8_STACK = [ s \in 0..(C8_STACK_SIZE - 1) |-> 0 ]
    /\ C8_Buffer = {}
    /\ C8_Keyboard = [ k \in 0..(C8_KEYBOARD_SIZE - 1) |-> FALSE ]
    /\ skip \in UninitSkip
    /\ status = "running"
    /\ last = NoCycle
    /\ calls = << >>
    /\ drawn = {}

(***************************************************************************)
(* The host's input poll.                                                  *)
(***************************************************************************)
\* the raylib keys the model's host may hold down
HostKeys == {"KEY_ONE"}

KeysDown == { S \in SUBSET HostKeys : Cardinality(S) <= MaxKeysDown }

\* the raylib key read_input polls for C8_Keyboard[k]
KeyOf(k) ==
    CASE k = 1 -> "KEY_ONE" [] k = 2 -> "KEY_TWO" [] k = 3 -> "KEY_THREE"
      [] k = 12 -> "KEY_C"  [] k = 4 -> "KEY_Q"   [] k = 5 -> "KEY_W"
      [] k = 6 -> "KEY_E"   [] k = 13 -> "KEY_R"  [] k = 7 -> "KEY_A"
      [] k = 8 -> "KEY_S"   [] k = 9 -> "KEY_D"   [] k = 14 -> "KEY_F"
      [] k = 10 -> "KEY_Z"  [] k = 0 -> "KEY_X"   [] k = 11 -> "KEY_C"
      [] k = 15 -> "KEY_V"

\* read_input: every element is assigned IsKeyDown of its key; the assignment
\* to C8_Keyboard[0xF] lands outside the 15-element array
read_input ==
    /\ status = "running"
    /\ \E down \in KeysDown :
         C8_Keyboard' = [ k \in 0..(C8_KEYBOARD_SIZE - 1) |-> KeyOf(k) \in down ]
    /\ fault' = fault \cup {"C8_Keyboard"}
    /\ UNCHANGED << C8_RAM, C8_V, C8_I, C8_ST, C8_DT, C8_PC, C8_SP, C8_STACK,
                    C8_Buffer, skip, status, last, calls, drawn, rom >>

(***************************************************************************)
(* Fetch and decode.                                                       *)
(***************************************************************************)
\* whether the fetch at C8_PC, C8_PC + 1 reads past C8_RAM
FetchOverruns == C8_PC + 1 >= C8_MEMORY

FetchGarbage == IF FetchOverruns THEN Garbage8 ELSE {0}

\* parse_instruction with y taken from the x nibble
parse_instruction_SameNibble(g) ==
    LET first_byte  == ReadRAM(C8_RAM, C8_PC, g)
        second_byte == ReadRAM(C8_RAM, C8_PC + 1, g)
        opcode      == U16(BitOr(Shl(first_byte, 8), second_byte))
    IN [ opcode |-> opcode,
         msn    |-> U8(Shr(BitAnd(opcode, 61440), 12)),
         addr   |-> U16(BitAnd(opcode, 4095)),
         n      |-> U8(BitAnd(opcode, 15)),
         x      |-> U8(Shr(BitAnd(opcode, 3840), 8)),
         y      |-> U8(Shr(BitAnd(opcode, 3840), 8)),
         kk     |-> U8(BitAnd(opcode, 255)) ]

parse_instruction(g) ==
    LET first_byte  == ReadRAM(C8_RAM, C8_PC, g)
        second_byte == ReadRAM(C8_RAM, C8_PC + 1, g)
        opcode      == U16(BitOr(Shl(first_byte, 8), second_byte))
    IN [ opcode |-> opcode,
         msn    |-> U8(Shr(BitAnd(opcode, 61440), 12)),
         addr   |-> U16(BitAnd(opcode, 4095)),
         n      |-> U8(BitAnd(opcode, 15)),
         x      |-> U8(Shr(BitAnd(opcode, 3840), 8)),
         y      |-> U8(Shr(BitAnd(opcode, 240), 4)),
         kk     |-> U8(BitAnd(opcode, 255)) ]

\* increment_program_counter applied to a program counter and a skip field:
\* the pair << C8_PC, skip >> it leaves
increment_program_counter(pc, sk) ==
    IF sk > 0 THEN << pc, 0 >> ELSE << U16(pc + 2), sk >>

(***************************************************************************)
(* The dispatch tables, as initialize_instruction_set fills them; "NULL"   *)
(* is a slot left empty.                                                   *)
(***************************************************************************)
instruction_0x0_subtable(kk) ==
    CASE kk = 224 -> "C8_CLS" [] kk = 238 -> "C8_RET" [] OTHER -> "NULL"

instruction_0x8_subtable(n) ==
    CASE n = 0 -> "C8_LD_VX_VY"  [] n = 1 -> "C8_OR_VX_VY"
      [] n = 2 -> "C8_AND_VX_VY" [] n = 3 -> "C8_XOR_VX_VY"
      [] n = 4 -> "C8_ADD_VX_VY" [] n = 5 -> "C8_SUB_VX_VY"
      [] n = 6 -> "C8_SHR_VX_VY" [] n = 7 -> "C8_SUBN_VX_VY"
      [] n = 14 -> "C8_SHL_VX_VY" [] OTHER -> "NULL"

instruction_0xE_subtable(kk) ==
    CASE kk = 158 -> "C8_SKP_VX" [] kk = 161 -> "C8_SKNP_VX" [] OTHER -> "NULL"

instruction_0xF_subtable(kk) ==
    CASE kk = 7 -> "C8_LD_VX_DT"   [] kk = 10 -> "C8_LD_VX_K"
      [] kk = 21 -> "C8_LD_DT_VX"  [] kk = 24 -> "C8_LD_ST_VX"
      [] kk = 30 -> "C8_ADD_I_VX"  [] kk = 41 -> "C8_LD_F_VX"
      [] kk = 51 -> "C8_LD_B_VX"   [] kk = 85 -> "C8_LD_I_VX"
      [] kk = 101 -> "C8_LD_VX_I"  [] OTHER -> "NULL"

\* the handler execute_instruction ends in for a descriptor
instruction_table(instruction) ==
    CASE instruction.msn = 0 -> instruction_0x0_subtable(instruction.kk)
      [] instruction.msn = 1 -> "C8_JP_ADDR"
      [] instruction.msn = 2 -> "C8_CALL_ADDR"
      [] instruction.msn = 3 -> "C8_SE_VX_BYTE"
      [] instruction.msn = 4 -> "C8_SNE_VX_BYTE"
      [] instruction.msn = 5 -> "C8_SE_VX_VY"
      [] instruction.msn = 6 -> "C8_LD_VX_BYTE"
      [] instruction.msn = 7 -> "C8_ADD_VX_BYTE"
      [] instruction.msn = 8 -> instruction_0x8_subtable(instruction.n)
      [] instruction.msn = 9 -> "C8_SNE_VX_VY"
      [] instruction.msn = 10 -> "C8_LD_I_ADDR"
      [] instruction.msn = 11 -> "C8_JP_V0_ADDR"
      [] instruction.msn = 12 -> "C8_RND_VX_BYTE"
      [] instruction.msn = 13 -> "C8_DRW_VX_VY_NIBBLE"
      [] instruction.msn = 14 -> instruction_0xE_subtable(instruction.kk)
      [] instruction.msn = 15 -> instruction_0xF_subtable(instruction.kk)

(***************************************************************************)
(* The instruction handlers.  Each action is one cycle of main's loop that *)
(* dispatches to the handler of its name: the handler's effect, then       *)
(* increment_program_counter.                                              *)
(***************************************************************************)
\* the shadow stack follows nests of at most C8_STACK_SIZE calls from an empty
\* stack; deeper nests, and returns with no call, leave it untracked
Untracked == << -1 >>

CallsAfter(handler) ==
    CASE handler = "C8_CALL_ADDR" ->
           IF calls = Untracked \/ Len(calls) >= C8_STACK_SIZE THEN Untracked
           ELSE << C8_PC >> \o calls
      [] handler = "C8_RET" ->
           IF calls = Untracked \/ calls = << >> THEN Untracked ELSE Tail(calls)
      [] OTHER -> calls

\* execute_instruction reaches the handler named: the machine runs and the
\* tables lead to it; the cycle is observed
Enter(instruction, handler) ==
    /\ status = "running"
    /\ instruction_table(instruction) = handler
    /\ last' = [ op     |-> handler,
                 pc     |-> C8_PC,
                 opcode |-> instruction.opcode,
                 x      |-> instruction.x ]
    /\ calls' = CallsAfter(handler)
    /\ UNCHANGED rom

\* main's increment_program_counter call, after the handler left C8_PC = pc
\* and instruction->skip = sk
Finish(pc, sk) ==
    LET r == increment_program_counter(pc, sk)
    IN /\ C8_PC' = r[1]
       /\ skip' = r[2]

\* the out-of-bounds accesses of the cycle: the fetch's and the handler's own
Faults(own) ==
    fault' = fault \cup (IF FetchOverruns THEN {"C8_RAM"} ELSE {}) \cup own

\* a handler that only assigns C8_V
OnlyV(v) ==
    /\ C8_V' = v
    /\ Finish(C8_PC, skip)
    /\ Faults({})
    /\ UNCHANGED << C8_RAM, C8_I, C8_ST, C8_DT, C8_SP, C8_STACK, C8_Buffer,
                    C8_Keyboard, status, drawn >>

\* a skip handler: it calls increment_program_counter itself when cond holds
OnlySkip(cond, own) ==
    /\ LET r == IF cond THEN increment_program_counter(C8_PC, skip)
                ELSE << C8_PC, skip >>
       IN Finish(r[1], r[2])
    /\ Faults(own)
    /\ UNCHANGED << C8_RAM, C8_V, C8_I, C8_ST, C8_DT, C8_SP, C8_STACK, C8_Buffer,
                    C8_Keyboard, status, drawn >>

\* a call through an empty table slot: a null function pointer is called
NULL(instruction) ==
    /\ Enter(instruction, "NULL")
    /\ status' = "crashed"
    /\ Faults({"NULL"})
    /\ UNCHANGED << C8_RAM, C8_V, C8_I, C8_ST, C8_DT, C8_PC, C8_SP, C8_STACK,
                    C8_Buffer, C8_Keyboard, skip, drawn >>

C8_CLS(instruction) ==
    /\ Enter(instruction, "C8_CLS")
    /\ C8_Buffer' = {}
    /\ Finish(C8_PC, skip)
    /\ Faults({})
    /\ UNCHANGED << C8_RAM, C8_V, C8_I, C8_ST, C8_DT, C8_SP, C8_STACK,
                    C8_Keyboard, status, drawn >>

\* a return that leaves the stack pointer where it is; C3_CallReturn fails of it
RET_SP_Unpopped(sp) == sp

\* C8_SP after C8_RET's decrement and adjustment (unsigned char arithmetic)
C8_RET_SP(sp) ==
    LET sp1 == U8(sp - 1)
    IN IF sp1 >= C8_STACK_SIZE THEN U8(sp1 - C8_STACK_SIZE) ELSE sp1

C8_RET(instruction) ==
    /\ Enter(instruction, "C8_RET")
    /\ LET sp == C8_RET_SP(C8_SP)
       IN /\ C8_SP' = sp
          /\ \E g \in (IF sp < C8_STACK_SIZE THEN {0} ELSE Garbage16) :
               Finish(IF sp < C8_STACK_SIZE THEN C8_STACK[sp] ELSE g, skip)
          /\ Faults(IF sp < C8_STACK_SIZE THEN {} ELSE {"C8_STACK"})
          /\ UNCHANGED << C8_RAM, C8_V, C8_I, C8_ST, C8_DT, C8_STACK, C8_Buffer,
                          C8_Keyboard, status, drawn >>

\* a redirect that leaves the skip field as it found it, so that the cycle
\* adds 2 to the target; C17_JumpAbsolute fails of it
SetSkip_Unset(sk) == sk

\* the skip field a redirecting handler leaves
SetSkip(sk) == 1

C8_JP_ADDR(instruction) ==
    /\ Enter(instruction, "C8_JP_ADDR")
    /\ Finish(instruction.addr, SetSkip(skip))
    /\ Faults({})
    /\ UNCHANGED << C8_RAM, C8_V, C8_I, C8_ST, C8_DT, C8_SP, C8_STACK, C8_Buffer,
                    C8_Keyboard, status, drawn >>

\* C8_SP after C8_CALL_ADDR's increment and adjustment
C8_CALL_SP(sp) ==
    LET sp1 == U8(sp + 1)
    IN IF sp1 >= C8_STACK_SIZE THEN U8(sp1 - C8_STACK_SIZE) ELSE sp1

\* the buffers C8_STACK[sp] = pc may leave when sp is past the stack: the two
\* bytes land 2 * (sp - C8_STACK_SIZE) bytes past the array, in C8_Buffer when
\* the build lays it out next (low byte first), and elsewhere otherwise
StackOverrun(buf, sp, pc) ==
    LET i0  == 2 * (sp - C8_STACK_SIZE)
        lit == { i \in {i0, i0 + 1} :
                   IF i = i0 THEN pc % 256 # 0 ELSE pc \div 256 # 0 }
    IN { buf, (buf \ {i0, i0 + 1}) \cup lit }

C8_CALL_ADDR(instruction) ==
    /\ Enter(instruction, "C8_CALL_ADDR")
    /\ C8_STACK' = IF C8_SP < C8_STACK_SIZE
                   THEN [C8_STACK EXCEPT ![C8_SP] = C8_PC]
                   ELSE C8_STACK
    /\ C8_Buffer' \in IF C8_SP < C8_STACK_SIZE
                       THEN { C8_Buffer }
                       ELSE StackOverrun(C8_Buffer, C8_SP, C8_PC)
    /\ C8_SP' = C8_CALL_SP(C8_SP)
    /\ Finish(instruction.addr, SetSkip(skip))
    /\ Faults(IF C8_SP < C8_STACK_SIZE THEN {} ELSE {"C8_STACK"})
    /\ UNCHANGED << C8_RAM, C8_V, C8_I, C8_ST, C8_DT,
                    C8_Keyboard, status, drawn >>

C8_SE_VX_BYTE(instruction) ==
    /\ Enter(instruction, "C8_SE_VX_BYTE")
    /\ OnlySkip(C8_V[instruction.x] = instruction.kk, {})

C8_SNE_VX_BYTE(instruction) ==
    /\ Enter(instruction, "C8_SNE_VX_BYTE")
    /\ OnlySkip(C8_V[instruction.x] # instruction.kk, {})

C8_SE_VX_VY(instruction) ==
    /\ Enter(instruction, "C8_SE_VX_VY")
    /\ OnlySkip(C8_V[instruction.x] = C8_V[instruction.y], {})

C8_LD_VX_BYTE(instruction) ==
    /\ Enter(instruction, "C8_LD_VX_BYTE")
    /\ OnlyV([C8_V EXCEPT ![instruction.x] = instruction.kk])

C8_ADD_VX_BYTE(instruction) ==
    /\ Enter(instruction, "C8_ADD_VX_BYTE")
    /\ OnlyV([C8_V EXCEPT ![instruction.x] = U8(C8_V[instruction.x] + instruction.kk)])

C8_LD_VX_VY(instruction) ==
    /\ Enter(instruction, "C8_LD_VX_VY")
    /\ OnlyV([C8_V EXCEPT ![instruction.x] = C8_V[instruction.y]])

C8_OR_VX_VY(instruction) ==
    /\ Enter(instruction, "C8_OR_VX_VY")
    /\ OnlyV([C8_V EXCEPT ![instruction.x] =
                U8(BitOr(C8_V[instruction.x], C8_V[instruction.y]))])

C8_AND_VX_VY(instruction) ==
    /\ Enter(instruction, "C8_AND_VX_VY")
    /\ OnlyV([C8_V EXCEPT ![instruction.x] =
                U8(BitAnd(C8_V[instruction.x], C8_V[instruction.y]))])

C8_XOR_VX_VY(instruction) ==
    /\ Enter(instruction, "C8_XOR_VX_VY")
    /\ OnlyV([C8_V EXCEPT ![instruction.x] =
                U8(BitXor(C8_V[instruction.x], C8_V[instruction.y]))])

\* an addition that writes the carry first and the sum last, so that with
\* x = F the sum stays in VF; C28_FlagWins fails of it
ADD_VX_VY_SumLast(v, x, y) ==
    LET sum == U8(v[x] + v[y])
        v1  == [v EXCEPT ![C8_VF] = IF sum < v[y] THEN 1 ELSE 0]
    IN [v1 EXCEPT ![x] = sum]

\* C8_V after C8_ADD_VX_VY: Vx += Vy, then VF = (Vx < Vy) on the stored values
ADD_VX_VY(v, x, y) ==
    LET v1 == [v EXCEPT ![x] = U8(v[x] + v[y])]
    IN [v1 EXCEPT ![C8_VF] = IF v1[x] < v1[y] THEN 1 ELSE 0]

C8_ADD_VX_VY(instruction) ==
    /\ Enter(instruction, "C8_ADD_VX_VY")
    /\ OnlyV(ADD_VX_VY(C8_V, instruction.x, instruction.y))

\* a subtraction whose flag is set on a strictly greater Vx only;
\* C16_Subtract fails of it
SUB_VX_VY_Strict(v, x, y) ==
    LET borrow == IF v[x] > v[y] THEN 1 ELSE 0
        v1     == [v EXCEPT ![x] = U8(v[x] - v[y])]
    IN [v1 EXCEPT ![C8_VF] = borrow]

\* C8_V after C8_SUB_VX_VY
SUB_VX_VY(v, x, y) ==
    LET borrow == IF v[x] >= v[y] THEN 1 ELSE 0
        vx     == U8(v[x] - v[y])
        v1     == [v EXCEPT ![x] = vx]
    IN [v1 EXCEPT ![C8_VF] = borrow]

C8_SUB_VX_VY(instruction) ==
    /\ Enter(instruction, "C8_SUB_VX_VY")
    /\ OnlyV(SUB_VX_VY(C8_V, instruction.x, instruction.y))

\* C8_V after C8_SHR_VX_VY
SHR_VX_VY(v, x) ==
    LET vf == U8(v[x] % 2)
        v1 == [v EXCEPT ![x] = U8(v[x] \div 2)]
    IN [v1 EXCEPT ![C8_VF] = vf]

C8_SHR_VX_VY(instruction) ==
    /\ Enter(instruction, "C8_SHR_VX_VY")
    /\ OnlyV(SHR_VX_VY(C8_V, instruction.x))

\* C8_V after C8_SUBN_VX_VY
SUBN_VX_VY(v, x, y) ==
    LET borrow == IF v[y] >= v[x] THEN 1 ELSE 0
        vx     == U8(v[y] - v[x])
        v1     == [v EXCEPT ![x] = vx]
    IN [v1 EXCEPT ![C8_VF] = borrow]

C8_SUBN_VX_VY(instruction) ==
    /\ Enter(instruction, "C8_SUBN_VX_VY")
    /\ OnlyV(SUBN_VX_VY(C8_V, instruction.x, instruction.y))

\* C8_V after C8_SHL_VX_VY
SHL_VX_VY(v, x) ==
    LET vf == IF v[x] > 128 THEN 1 ELSE 0
        v1 == [v EXCEPT ![x] = U8(v[x] * 2)]
    IN [v1 EXCEPT ![C8_VF] = vf]

C8_SHL_VX_VY(instruction) ==
    /\ Enter(instruction, "C8_SHL_VX_VY")
    /\ OnlyV(SHL_VX_VY(C8_V, instruction.x))

C8_SNE_VX_VY(instruction) ==
    /\ Enter(instruction, "C8_SNE_VX_VY")
    /\ OnlySkip(C8_V[instruction.x] # C8_V[instruction.y], {})

C8_LD_I_ADDR(instruction) ==
    /\ Enter(instruction, "C8_LD_I_ADDR")
    /\ C8_I' = instruction.addr
    /\ Finish(C8_PC, skip)
    /\ Faults({})
    /\ UNCHANGED << C8_RAM, C8_V, C8_ST, C8_DT, C8_SP, C8_STACK, C8_Buffer,
                    C8_Keyboard, status, drawn >>

\* the handler assigns C8_PC and leaves instruction->skip alone
C8_JP_V0_ADDR(instruction) ==
    /\ Enter(instruction, "C8_JP_V0_ADDR")
    /\ Finish(U16(instruction.addr + C8_V[C8_V0]), skip)
    /\ Faults({})
    /\ UNCHANGED << C8_RAM, C8_V, C8_I, C8_ST, C8_DT, C8_SP, C8_STACK, C8_Buffer,
                    C8_Keyboard, status, drawn >>

\* GetRandomValue(0, 255) delivers any byte
C8_RND_VX_BYTE(instruction) ==
    /\ Enter(instruction, "C8_RND_VX_BYTE")
    /\ \E n \in 0..255 :
           OnlyV([C8_V EXCEPT ![instruction.x] = U8(BitAnd(n, instruction.kk))])

\* the loop of C8_DRW_VX_VY_NIBBLE from its k-th pixel on (row k / 8, column
\* k % 8), on st = k, the registers, the buffer, the sprite array, the row's
\* ypos and the index pairs used so far; gb is what a read outside C8_Buffer
\* delivers
RECURSIVE DrawLoop(_, _, _)
DrawLoop(instruction, st, gb) ==
    IF st.k >= 8 * instruction.n THEN st
    ELSE
      LET y      == st.k \div 8
          x      == st.k % 8
          ypos0  == U8(st.v[instruction.y] + y)
          ypos   == IF x = 0
                    THEN (IF ypos0 > C8_HEIGHT THEN U8(ypos0 - C8_HEIGHT) ELSE ypos0)
                    ELSE st.ypos
          xpos0  == U8(st.v[instruction.x] + x)
          xpos   == IF xpos0 > C8_WIDTH THEN U8(xpos0 - C8_WIDTH) ELSE xpos0
          s      == st.sprite[y]
          lit    == BitAnd(s, 128) > 0
          flat   == ypos * C8_WIDTH + xpos
          inside == flat < C8_HEIGHT * C8_WIDTH
          cur    == IF inside THEN (IF flat \in st.buf THEN 1 ELSE 0)
                    ELSE (IF gb THEN 1 ELSE 0)
          bit    == BitXor(cur, Shr(s, x)) # 0
      IN DrawLoop(instruction,
                  [ k      |-> st.k + 1,
                    v      |-> IF lit
                               THEN [st.v EXCEPT ![C8_VF] = IF bit THEN 0 ELSE 1]
                               ELSE st.v,
                    buf    |-> IF lit /\ inside
                               THEN (IF bit THEN st.buf \cup {flat} ELSE st.buf \ {flat})
                               ELSE st.buf,
                    sprite |-> [st.sprite EXCEPT ![y] = U8(Shl(s, 1))],
                    ypos   |-> ypos,
                    cells  |-> IF lit THEN st.cells \cup {<< ypos, xpos >>}
                               ELSE st.cells ],
                  gb)

\* a draw that resets VF and touches no cell; C18_FontRendering fails of it
DRW_Untouched(instruction, g, gb) ==
    [ k      |-> 0,
      v      |-> [C8_V EXCEPT ![C8_VF] = 0],
      buf    |-> C8_Buffer,
      sprite |-> << >>,
      ypos   |-> 0,
      cells  |-> {} ]

\* the whole handler: VF reset, the sprite copied from C8_RAM, the loop
DRW_VX_VY_NIBBLE(instruction, g, gb) ==
    DrawLoop(instruction,
             [ k      |-> 0,
               v      |-> [C8_V EXCEPT ![C8_VF] = 0],
               buf    |-> C8_Buffer,
               sprite |-> [ i \in 0..(instruction.n - 1) |-> ReadRAM(C8_RAM, C8_I + i, g) ],
               ypos   |-> 0,
               cells  |-> {} ],
             gb)

C8_DRW_VX_VY_NIBBLE(instruction) ==
    /\ Enter(instruction, "C8_DRW_VX_VY_NIBBLE")
    /\ \E g \in (IF C8_I + instruction.n > C8_MEMORY THEN Garbage8 ELSE {0}),
          gb \in BOOLEAN :
           LET st == DRW_VX_VY_NIBBLE(instruction, g, gb)
           IN /\ C8_V' = st.v
              /\ C8_Buffer' = st.buf
              /\ drawn' = st.cells
              /\ Finish(C8_PC, skip)
              /\ Faults((IF C8_I + instruction.n > C8_MEMORY THEN {"C8_RAM"} ELSE {})
                        \cup (IF \E c \in st.cells : c[1] >= C8_HEIGHT \/ c[2] >= C8_WIDTH
                              THEN {"C8_Buffer"} ELSE {}))
              /\ UNCHANGED << C8_RAM, C8_I, C8_ST, C8_DT, C8_SP, C8_STACK,
                              C8_Keyboard, status >>

\* C8_Keyboard[C8_V[x]] as an rvalue; gk is what a read past the array delivers
KeyDown(idx, gk) == IF idx < C8_KEYBOARD_SIZE THEN C8_Keyboard[idx] ELSE gk

KeyGarbage(idx) == IF idx < C8_KEYBOARD_SIZE THEN {FALSE} ELSE BOOLEAN

KeyFault(idx) == IF idx < C8_KEYBOARD_SIZE THEN {} ELSE {"C8_Keyboard"}

C8_SKP_VX(instruction) ==
    /\ Enter(instruction, "C8_SKP_VX")
    /\ \E gk \in KeyGarbage(C8_V[instruction.x]) :
           OnlySkip(KeyDown(C8_V[instruction.x], gk), KeyFault(C8_V[instruction.x]))

C8_SKNP_VX(instruction) ==
    /\ Enter(instruction, "C8_SKNP_VX")
    /\ \E gk \in KeyGarbage(C8_V[instruction.x]) :
           OnlySkip(~KeyDown(C8_V[instruction.x], gk), KeyFault(C8_V[instruction.x]))

C8_LD_VX_DT(instruction) ==
    /\ Enter(instruction, "C8_LD_VX_DT")
    /\ OnlyV([C8_V EXCEPT ![instruction.x] = C8_DT])

\* a wait that leaves the skip field as it found it, so that the cycle
\* advances C8_PC; C9_WaitBlocks fails of it
LD_VX_K_Unset(sk) == sk

\* the whole of C8_LD_VX_K: the skip field it leaves, given the one it found
LD_VX_K(sk) == 1

C8_LD_VX_K(instruction) ==
    /\ Enter(instruction, "C8_LD_VX_K")
    /\ Finish(C8_PC, LD_VX_K(skip))
    /\ Faults({})
    /\ UNCHANGED << C8_RAM, C8_V, C8_I, C8_ST, C8_DT, C8_SP, C8_STACK, C8_Buffer,
                    C8_Keyboard, status, drawn >>

C8_LD_DT_VX(instruction) ==
    /\ Enter(instruction, "C8_LD_DT_VX")
    /\ C8_DT' = C8_V[instruction.x]
    /\ Finish(C8_PC, skip)
    /\ Faults({})
    /\ UNCHANGED << C8_RAM, C8_V, C8_I, C8_ST, C8_SP, C8_STACK, C8_Buffer,
                    C8_Keyboard, status, drawn >>

C8_LD_ST_VX(instruction) ==
    /\ Enter(instruction, "C8_LD_ST_VX")
    /\ C8_ST' = C8_V[instruction.x]
    /\ Finish(C8_PC, skip)
    /\ Faults({})
    /\ UNCHANGED << C8_RAM, C8_V, C8_I, C8_DT, C8_SP, C8_STACK, C8_Buffer,
                    C8_Keyboard, status, drawn >>

\* a handler that only assigns C8_I
OnlyI(i) ==
    /\ C8_I' = i
    /\ Finish(C8_PC, skip)
    /\ Faults({})
    /\ UNCHANGED << C8_RAM, C8_V, C8_ST, C8_DT, C8_SP, C8_STACK, C8_Buffer,
                    C8_Keyboard, status, drawn >>

C8_ADD_I_VX(instruction) ==
    /\ Enter(instruction, "C8_ADD_I_VX")
    /\ OnlyI(U16(C8_I + C8_V[instruction.x]))

\* C8_I after C8_LD_F_VX, given Vx
LD_F_VX(vx) == vx

C8_LD_F_VX(instruction) ==
    /\ Enter(instruction, "C8_LD_F_VX")
    /\ OnlyI(LD_F_VX(C8_V[instruction.x]))

\* a handler that only assigns C8_RAM, at C8_I .. C8_I + upto
OnlyRAM(ram, upto) ==
    /\ C8_RAM' = ram
    /\ Finish(C8_PC, skip)
    /\ Faults(IF C8_I + upto >= C8_MEMORY THEN {"C8_RAM"} ELSE {})
    /\ UNCHANGED << C8_V, C8_I, C8_ST, C8_DT, C8_SP, C8_STACK, C8_Buffer,
                    C8_Keyboard, status, drawn >>

C8_LD_B_VX(instruction) ==
    /\ Enter(instruction, "C8_LD_B_VX")
    /\ LET vx == C8_V[instruction.x]
       IN OnlyRAM(WriteRAM(WriteRAM(WriteRAM(C8_RAM, C8_I, U8(vx \div 100)),
                                    C8_I + 1, U8((vx \div 10) % 10)),
                           C8_I + 2, U8(vx % 10)),
                  2)

\* the loop of C8_LD_I_VX from register i on
RECURSIVE StoreRegisters(_, _, _)
StoreRegisters(ram, i, x) ==
    IF i > x THEN ram
    ELSE StoreRegisters(WriteRAM(ram, C8_I + i, C8_V[i]), i + 1, x)

C8_LD_I_VX(instruction) ==
    /\ Enter(instruction, "C8_LD_I_VX")
    /\ OnlyRAM(StoreRegisters(C8_RAM, C8_V0, instruction.x), instruction.x)

\* a read of V0..Vx that leaves I behind the last byte read; C24_StoreLoad
\* fails of it
LD_VX_I_Advancing(instruction) ==
    /\ Enter(instruction, "C8_LD_VX_I")
    /\ C8_V' = [ r \in 0..(C8_V_REGISTER_COUNT - 1) |->
                   IF r <= instruction.x THEN ReadRAM(C8_RAM, C8_I + r, 0)
                   ELSE C8_V[r] ]
    /\ C8_I' = U16(C8_I + instruction.x + 1)
    /\ Finish(C8_PC, skip)
    /\ Faults(IF C8_I + instruction.x >= C8_MEMORY THEN {"C8_RAM"} ELSE {})
    /\ UNCHANGED << C8_RAM, C8_ST, C8_DT, C8_SP, C8_STACK, C8_Buffer,
                    C8_Keyboard, status, drawn >>

C8_LD_VX_I(instruction) ==
    /\ Enter(instruction, "C8_LD_VX_I")
    /\ \E g \in (IF C8_I + instruction.x >= C8_MEMORY THEN Garbage8 ELSE {0}) :
           /\ C8_V' = [ r \in 0..(C8_V_REGISTER_COUNT - 1) |->
                          IF r <= instruction.x THEN ReadRAM(C8_RAM, C8_I + r, g)
                          ELSE C8_V[r] ]
           /\ Finish(C8_PC, skip)
           /\ Faults(IF C8_I + instruction.x >= C8_MEMORY THEN {"C8_RAM"} ELSE {})
           /\ UNCHANGED << C8_RAM, C8_I, C8_ST, C8_DT, C8_SP, C8_STACK, C8_Buffer,
                           C8_Keyboard, status, drawn >>

(***************************************************************************)
(* One cycle of main's loop.                                               *)
(***************************************************************************)
\* execute_instruction: the call through the tables into one handler (each
\* handler action is enabled for its own descriptors only), followed by main's
\* increment_program_counter
execute_instruction(instruction) ==
    \/ NULL(instruction)
    \/ C8_CLS(instruction)
    \/ C8_RET(instruction)
    \/ C8_JP_ADDR(instruction)
    \/ C8_CALL_ADDR(instruction)
    \/ C8_SE_VX_BYTE(instruction)
    \/ C8_SNE_VX_BYTE(instruction)
    \/ C8_SE_VX_VY(instruction)
    \/ C8_LD_VX_BYTE(instruction)
    \/ C8_ADD_VX_BYTE(instruction)
    \/ C8_LD_VX_VY(instruction)
    \/ C8_OR_VX_VY(instruction)
    \/ C8_AND_VX_VY(instruction)
    \/ C8_XOR_VX_VY(instruction)
    \/ C8_ADD_VX_VY(instruction)
    \/ C8_SUB_VX_VY(instruction)
    \/ C8_SHR_VX_VY(instruction)
    \/ C8_SUBN_VX_VY(instruction)
    \/ C8_SHL_VX_VY(instruction)
    \/ C8_SNE_VX_VY(instruction)
    \/ C8_LD_I_ADDR(instruction)
    \/ C8_JP_V0_ADDR(instruction)
    \/ C8_RND_VX_BYTE(instruction)
    \/ C8_DRW_VX_VY_NIBBLE(instruction)
    \/ C8_SKP_VX(instruction)
    \/ C8_SKNP_VX(instruction)
    \/ C8_LD_VX_DT(instruction)
    \/ C8_LD_VX_K(instruction)
    \/ C8_LD_DT_VX(instruction)
    \/ C8_LD_ST_VX(instruction)
    \/ C8_ADD_I_VX(instruction)
    \/ C8_LD_F_VX(instruction)
    \/ C8_LD_B_VX(instruction)
    \/ C8_LD_I_VX(instruction)
    \/ C8_LD_VX_I(instruction)

\* one cycle: parse_instruction, execute_instruction, increment_program_counter
Cycle ==
    \E g \in FetchGarbage :
        \E instruction \in { parse_instruction(g) } :
            execute_instruction(instruction)

Next == read_input \/ Cycle

Spec == Init /\ [][Next]_vars

\* the machine started on a timer program
TimerInit == Init /\ rom \in TimerPrograms

\* main's loop runs a cycle whenever cycleTime has elapsed, for as long as
\* the window is open
TimerSpec == TimerInit /\ [][Next]_vars /\ WF_vars(Cycle)

(***************************************************************************)
(* Properties.  A step "runs" a handler when it is a cycle of the main     *)
(* loop that dispatched to it.                                             *)
(***************************************************************************)
Runs(handler) == last'.op = handler /\ Cycle

\* the x and y nibbles of the instruction the step executes
StepX == last'.x
StepY == (last'.opcode \div 16) % 16

\* C1: 8xy4 with x in 0..14 and any y (x = y allowed): after the step
\* VF = 1 iff Vx + Vy > 255, else 0, and Vx = (Vx + Vy) mod 256.
C1_AddCarry ==
    [][ Runs("C8_ADD_VX_VY") /\ StepX # C8_VF
        => LET a == C8_V[StepX]
               b == C8_V[StepY]
           IN /\ C8_V'[C8_VF] = (IF a + b > 255 THEN 1 ELSE 0)
              /\ C8_V'[StepX] = (a + b) % 256 ]_vars

\* C2: 8xyE with x # F: after the step VF is bit 7 of the old Vx and
\* Vx = (2 * Vx) mod 256; so 0x80 gives Vx = 0, VF = 1 and 0x7F gives 0xFE, VF = 0.
C2_ShiftLeft ==
    [][ Runs("C8_SHL_VX_VY") /\ StepX # C8_VF
        => LET v == C8_V[StepX]
           IN /\ C8_V'[C8_VF] = (IF BitAnd(v, 128) # 0 THEN 1 ELSE 0)
              /\ C8_V'[StepX] = (2 * v) % 256 ]_vars

\* C3: from an empty stack and PC = B, CALL A leaves PC = A with B the only
\* stack entry; the RET that follows sets PC to B, empties the stack (stack
\* pointer back to its value before the call) and the auto-advance ends the
\* cycle at B + 2.
C3_CallReturn ==
    [][ /\ ( Runs("C8_CALL_ADDR") /\ calls = << >> /\ C8_SP = 0
             => /\ C8_PC' = last'.opcode % 4096
                /\ C8_SP' = 1
                /\ C8_STACK'[0] = C8_PC
                /\ calls' = << C8_PC >> )
        /\ ( Runs("C8_RET") /\ calls # Untracked /\ Len(calls) = 1 /\ C8_SP = 1
             => /\ C8_PC' = C8_STACK[0] + 2
                /\ C8_PC' = Head(calls) + 2
                /\ C8_SP' = 0
                /\ calls' = << >> ) ]_vars

\* a call from the empty stack at C8_START has returned: PC is past the call
C3_Returned ==
    /\ last.op = "C8_RET"
    /\ calls = << >>
    /\ C8_SP = 0
    /\ C8_STACK[0] = C8_START
    /\ C8_PC = C8_START + 2

\* C4: for k in 1..16 nested calls from an empty stack, each RET resumes at
\* the address after the matching call, last in first out, and the RET that
\* matches the first call leaves the stack pointer at its initial value.
C4_NestedCalls ==
    [][ Runs("C8_RET") /\ calls # Untracked /\ calls # << >>
        => /\ C8_PC' = Head(calls) + 2
           /\ (Len(calls) = 1 => C8_SP' = 0) ]_vars

\* the operands of the Dxyn the step executes, as they are before the step
StepN == last'.opcode % 16
\* whether bit c (from the left) of sprite row r at C8_I is set
SpriteBit(r, c) == (ReadRAM(C8_RAM, C8_I + r, 0) \div (2 ^ (7 - c))) % 2 = 1
\* the set bits (row, column) of the sprite the step draws
SetBits == { p \in (0..14) \X (0..7) : p[1] < StepN /\ SpriteBit(p[1], p[2]) }
\* the cells of the display that differ between the step's two states
Flipped == (C8_Buffer \ C8_Buffer') \cup (C8_Buffer' \ C8_Buffer)

\* C5: Dxyn wraps by true modulo: sprite bit (r, c) may touch only row
\* (Vy + r) mod 32, column (Vx + c) mod 64, so every access is inside the
\* 32x64 grid; a sprite at (60, 0) touches columns 60..63 and 0..3 of its row.
C5_DrawWraps ==
    [][ Runs("C8_DRW_VX_VY_NIBBLE")
        => LET target == { << (C8_V[StepY] + p[1]) % C8_HEIGHT,
                              (C8_V[StepX] + p[2]) % C8_WIDTH >> : p \in SetBits }
           IN /\ drawn' \subseteq target
              /\ Flipped \subseteq { t[1] * C8_WIDTH + t[2] : t \in target } ]_vars

\* C6: Dxyn XORs: a cell under a set sprite bit is negated, every other cell
\* is unchanged (coordinates fully on screen); so the same Dxyn executed
\* twice restores the display.
C6_DrawXors ==
    [][ /\ Runs("C8_DRW_VX_VY_NIBBLE")
        /\ C8_V[StepX] + 7 < C8_WIDTH
        /\ C8_V[StepY] + StepN - 1 < C8_HEIGHT
        /\ C8_VF \notin {StepX, StepY}
        => Flipped = { (C8_V[StepY] + p[1]) * C8_WIDTH + C8_V[StepX] + p[2] :
                       p \in SetBits } ]_vars

\* C7: after Dxyn VF = 1 iff the instruction flipped at least one cell from
\* set to unset, whichever sprite pixel did it, and VF = 0 otherwise (taken
\* with the coordinates fully on screen, where wrapping plays no part).
C7_DrawCollision ==
    [][ /\ Runs("C8_DRW_VX_VY_NIBBLE")
        /\ C8_V[StepX] + 7 < C8_WIDTH
        /\ C8_V[StepY] + StepN - 1 < C8_HEIGHT
        /\ C8_VF \notin {StepX, StepY}
        => C8_V'[C8_VF] = (IF C8_Buffer \ C8_Buffer' # {} THEN 1 ELSE 0) ]_vars

\* the keys marked pressed in the keypad state
KeysPressed == { k \in 0..(C8_KEYBOARD_SIZE - 1) : C8_Keyboard[k] }

\* C8: when Fx0A executes while some key k is marked pressed, the step
\* stores k in Vx (and the step after it advances PC past the Fx0A): with a
\* key held down the machine leaves the waiting state.
C8_WaitResumes ==
    [][ Runs("C8_LD_VX_K") /\ KeysPressed # {}
        => C8_V'[StepX] \in KeysPressed ]_vars

\* C9: while PC points at an Fx0A and no key is pressed, a step leaves PC,
\* the V registers, I, memory, the stack and the display unchanged, so the
\* same instruction is executed again at the next cycle.
C9_WaitBlocks ==
    [][ /\ ( Runs("C8_LD_VX_K") /\ KeysPressed = {}
             => /\ UNCHANGED << C8_PC, C8_V, C8_I, C8_RAM, C8_STACK, C8_SP, C8_Buffer >>
                /\ C8_PC' = last'.pc )
        /\ ( last.op = "C8_LD_VX_K" /\ KeysPressed = {} /\ Cycle
             => last' = last ) ]_vars

\* an Fx0A has executed with no key pressed and the machine is still at it
C9_Waiting ==
    /\ last.op = "C8_LD_VX_K"
    /\ KeysPressed = {}
    /\ C8_PC = last.pc
    /\ skip = 0
    /\ status = "running"

\* C10: Fx29 with Vx a digit 0..15: after the step I is the address of the
\* digit's 5-byte font sprite, 5 * Vx, as load_hexfont_sprites laid it out.
C10_FontAddress ==
    [][ Runs("C8_LD_F_VX") /\ C8_V[StepX] <= 15
        => /\ C8_I' = 5 * C8_V[StepX]
           /\ C8_I' = C8_FONT_ADDR[C8_V[StepX] + 1] ]_vars

\* the address field nnn of the instruction the step executes
StepAddr == last'.opcode % 4096

\* C11: Bnnn: after the step PC = nnn + V0 exactly, no auto-advance added.
C11_JumpOffset ==
    [][ Runs("C8_JP_V0_ADDR") => C8_PC' = StepAddr + C8_V[C8_V0] ]_vars

\* C12: an opcode with no registered handler halts the machine in a reported
\* error state; it is never a call through an empty table slot.
C12_UnmappedReported ==
    [][ Runs("NULL") => status' = "error" /\ "NULL" \notin fault' ]_vars

\* C13: a CALL with 16 return addresses on the stack, and a RET with the
\* stack empty, end in a reported error state and leave the stack pointer,
\* the stack and the rest of the machine as they are.
C13_StackErrors ==
    [][ /\ ( Runs("C8_CALL_ADDR") /\ calls # Untracked /\ Len(calls) = C8_STACK_SIZE
             => /\ status' = "error"
                /\ UNCHANGED << C8_SP, C8_STACK, C8_PC >> )
        /\ ( Runs("C8_RET") /\ calls = << >> /\ C8_SP = 0
             => /\ status' = "error"
                /\ UNCHANGED << C8_SP, C8_STACK, C8_PC >> ) ]_vars

\* the step accesses C8_RAM out of bounds, and no access before it was out
\* of bounds of C8_RAM, C8_STACK or C8_Buffer
Overruns == fault \subseteq {"C8_Keyboard"} /\ "C8_RAM" \in fault'

\* C14: no step reads or writes memory outside 0..4095 (fetch at PC, PC + 1;
\* sprite at I..I+n-1; BCD at I..I+2; registers at I..I+x): an access past
\* 4095 is not performed.
C14_MemoryInBounds ==
    [][ ~(Overruns /\ Cycle) ]_vars

\* C15: an image of length L in 1..3584 is copied byte i to memory[512 + i]
\* (3584 bytes fill memory[512..4095]); an image with L = 0 or L > 3584 is
\* rejected: nothing is copied and no byte is written at or beyond 4096.
C15_LoadBounds ==
    last = NoCycle
    => /\ ( Len(rom) \in 1..MaxImage
            => \A i \in 0..(Len(rom) - 1) : Mem(C8_RAM, C8_START + i) = rom[i + 1] )
       /\ ( Len(rom) = 0 \/ Len(rom) > MaxImage
            => C8_RAM = FontRAM /\ "C8_RAM" \notin fault )

C17_JumpAbsolute ==
    [][ /\ ( Runs("C8_JP_ADDR") => C8_PC' = StepAddr /\ skip' = 0 )
        /\ ( last.op = "C8_JP_ADDR" /\ Cycle => last'.pc = last.opcode % 4096 ) ]_vars

\* the jump at 0x202 to 0x206 has executed: PC is 0x206, not 0x208
C17_Jumped ==
    /\ last.op = "C8_JP_ADDR"
    /\ last.pc = C8_START + 2
    /\ last.opcode % 4096 = C8_START + 6
    /\ C8_PC = C8_START + 6
    /\ skip = 0

\* the cells (row r, column c) at which the font sprite of digit d has bit
\* (7 - c) of its row r byte set
FontCells(d) ==
    { p[1] * C8_WIDTH + p[2] :
      p \in { q \in (0..4) \X (0..7) :
              (FontBytes[5 * d + q[1] + 1] \div (2 ^ (7 - q[2]))) % 2 = 1 } }

\* the font table is in memory as load_hexfont_sprites left it
FontLoaded == \A a \in 0..79 : Mem(C8_RAM, a) = FontBytes[a + 1]

\* C18: with the font loaded and the display clear, drawing the 5-byte sprite
\* of digit d at (0, 0) sets exactly the cells (r, c) where bit (7 - c) of the
\* sprite's row r is 1, and leaves VF = 0.
C18_FontRendering ==
    [][ /\ Runs("C8_DRW_VX_VY_NIBBLE")
        /\ FontLoaded
        /\ C8_Buffer = {}
        /\ StepN = 5
        /\ C8_V[StepX] = 0 /\ C8_V[StepY] = 0
        /\ C8_I \in { 5 * d : d \in 0..15 }
        => /\ C8_Buffer' = FontCells(C8_I \div 5)
           /\ C8_V'[C8_VF] = 0 ]_vars

\* the digit A has been drawn at (0, 0) on the clear display
C18_DrewA ==
    /\ last.op = "C8_DRW_VX_VY_NIBBLE"
    /\ last.opcode % 16 = 5
    /\ C8_I = 5 * 10
    /\ C8_V[0] = 0 /\ C8_V[1] = 0
    /\ C8_Buffer = FontCells(10)
    /\ C8_Buffer # {}
    /\ C8_V[C8_VF] = 0

\* C19: the program counter is even in every reachable state, whatever the
\* program (taken while no access has been out of bounds).
C19_EvenPC ==
    fault \subseteq {"C8_Keyboard"} => C8_PC % 2 = 0

\* C20: the keypad holds a flag for each key 0..F: the host's input write and
\* the read of Ex9E / ExA1 with Vx = k address a flag inside the keypad state
\* for every k in 0..15; Ex9E skips iff flag k is down, ExA1 iff it is up.
C20_KeypadFlags ==
    [][ /\ ( read_input => "C8_Keyboard" \notin fault' )
        /\ ( Runs("C8_SKP_VX") /\ C8_V[StepX] <= 15
             => /\ C8_V[StepX] < C8_KEYBOARD_SIZE
                /\ C8_PC' = C8_PC + (IF C8_Keyboard[C8_V[StepX]] THEN 4 ELSE 2) )
        /\ ( Runs("C8_SKNP_VX") /\ C8_V[StepX] <= 15
             => /\ C8_V[StepX] < C8_KEYBOARD_SIZE
                /\ C8_PC' = C8_PC + (IF C8_Keyboard[C8_V[StepX]] THEN 2 ELSE 4) ) ]_vars

\* C21: the timers count down to 0: a delay timer set to a nonzero value
\* and not rewritten eventually reads 0 (while the machine runs).
C21_TimersCountDown ==
    (C8_DT > 0) ~> (C8_DT = 0 \/ status # "running")

\* C22: every cycle decodes the two bytes at C8_PC into the descriptor
\* opcode = b0 * 256 + b1, msn = opcode div 4096, addr = opcode mod 4096,
\* n = opcode mod 16, x = (opcode div 256) mod 16, y = (opcode div 16) mod 16,
\* kk = opcode mod 256, and the decoding itself changes no machine state: a
\* step of Annn leaves memory, registers, stack and display alone, sets I to
\* the decoded address and moves PC by 2.
C22_Decoding ==
    [][ last'.op # "none" /\ last'.pc = C8_PC /\ Cycle =>
          \E g \in FetchGarbage :
              LET b0     == ReadRAM(C8_RAM, C8_PC, g)
                  b1     == ReadRAM(C8_RAM, C8_PC + 1, g)
                  opcode == b0 * 256 + b1
                  d      == parse_instruction(g)
              IN /\ d = [ opcode |-> opcode,
                          msn    |-> opcode \div 4096,
                          addr   |-> opcode % 4096,
                          n      |-> opcode % 16,
                          x      |-> (opcode \div 256) % 16,
                          y      |-> (opcode \div 16) % 16,
                          kk     |-> opcode % 256 ]
                 /\ last'.opcode = opcode
                 /\ last'.x = d.x
                 /\ last'.op = "C8_LD_I_ADDR" =>
                        /\ C8_I' = d.addr
                        /\ skip = 0 => C8_PC' = U16(C8_PC + 2)
                        /\ UNCHANGED << C8_RAM, C8_V, C8_SP, C8_STACK,
                                        C8_Buffer >> ]_vars

\* a cycle has decoded and run 81F4: four different nibbles
C22_Decoded == last.op = "C8_ADD_VX_VY" /\ last.opcode = 33268 /\ last.x = 1

StepRange == C8_I .. (C8_I + StepX)

\* C24: with I + x <= 4095, Fx55 sets memory[I + i] = Vi for i in 0..x and
\* changes no other memory byte, no register and not I; Fx65 sets
\* Vi = memory[I + i] for i in 0..x and leaves V(x+1)..VF, memory and I
\* unchanged; so in a program that stores V0..Vx, overwrites V0 and V1 and
\* reads V0..Vx back, the read restores the stored values.
C24_StoreLoad ==
    [][ /\ Runs("C8_LD_I_VX") /\ C8_I + StepX < C8_MEMORY =>
            /\ \A a \in StepRange : Mem(C8_RAM', a) = C8_V[a - C8_I]
            /\ \A a \in (DOMAIN C8_RAM \cup DOMAIN C8_RAM') \ StepRange :
                   Mem(C8_RAM', a) = Mem(C8_RAM, a)
            /\ UNCHANGED << C8_V, C8_I >>
        /\ Runs("C8_LD_VX_I") /\ C8_I + StepX < C8_MEMORY =>
            /\ \A r \in 0..(C8_V_REGISTER_COUNT - 1) :
                   C8_V'[r] = IF r <= StepX THEN Mem(C8_RAM, C8_I + r)
                              ELSE C8_V[r]
            /\ UNCHANGED << C8_RAM, C8_I >>
            /\ rom \in RoundTripPrograms =>
                   /\ C8_V'[0] = rom[2]
                   /\ C8_V'[1] = IF StepX >= 1 THEN rom[4] ELSE 102 ]_vars

\* V0..VF stored at 4080..4095 and read back after V0 and V1 were overwritten
C24_Restored ==
    /\ last.op = "C8_LD_VX_I" /\ last.x = 15 /\ rom \in RoundTripPrograms
    /\ C8_I = 4080 /\ C8_V[0] = 255 /\ C8_V[1] = 7

\* the skip instructions
SkipOps ==
    { "C8_SE_VX_BYTE", "C8_SNE_VX_BYTE", "C8_SE_VX_VY", "C8_SNE_VX_VY",
      "C8_SKP_VX", "C8_SKNP_VX" }

\* whether the condition of the skip instruction of this step holds
SkipCond ==
    CASE last'.op = "C8_SE_VX_BYTE"  -> C8_V[StepX] = last'.opcode % 256
      [] last'.op = "C8_SNE_VX_BYTE" -> C8_V[StepX] # last'.opcode % 256
      [] last'.op = "C8_SE_VX_VY"    -> C8_V[StepX] = C8_V[StepY]
      [] last'.op = "C8_SNE_VX_VY"   -> C8_V[StepX] # C8_V[StepY]
      [] last'.op = "C8_SKP_VX"      -> C8_Keyboard[C8_V[StepX]]
      [] last'.op = "C8_SKNP_VX"     -> ~C8_Keyboard[C8_V[StepX]]

\* C25: a step of a skip instruction at address P ends with PC = P + 4 when
\* its condition holds and PC = P + 2 when it does not, and changes no
\* register, memory, stack or display state (for Ex9E and ExA1: with Vx one
\* of the keys C8_Keyboard holds).
C25_Skips ==
    [][ /\ last'.op \in SkipOps
        /\ Cycle
        /\ last'.op \in {"C8_SKP_VX", "C8_SKNP_VX"} =>
               C8_V[StepX] < C8_KEYBOARD_SIZE
        => /\ C8_PC' = U16(C8_PC + (IF SkipCond THEN 4 ELSE 2))
           /\ UNCHANGED << C8_V, C8_I, C8_RAM, C8_SP, C8_STACK, C8_Buffer >> ]_vars

\* C26: the stack pointer is in 0..15 in every reachable state, and every
\* stack slot read or written is one of the 16 slots of C8_STACK.
C26_StackPointer ==
    C8_SP \in 0..(C8_STACK_SIZE - 1) /\ "C8_STACK" \notin fault

\* the instructions that redirect PC, skip or wait, and the empty table slot
RedirectOps ==
    SkipOps \cup { "C8_JP_ADDR", "C8_CALL_ADDR", "C8_RET", "C8_JP_V0_ADDR",
                   "C8_LD_VX_K", "NULL" }

\* C27: at the start of every cycle, the first one included, the descriptor's
\* skip field is 0, and a step of an instruction that neither redirects PC,
\* skips nor waits ends with PC advanced by exactly 2.
C27_SkipCleared ==
    [][ last'.op \notin RedirectOps /\ Cycle =>
          skip = 0 /\ C8_PC' = U16(C8_PC + 2) ]_vars

\* the instructions that produce a flag in VF
FlagOps ==
    { "C8_ADD_VX_VY", "C8_SUB_VX_VY", "C8_SHR_VX_VY", "C8_SUBN_VX_VY",
      "C8_SHL_VX_VY", "C8_DRW_VX_VY_NIBBLE" }

\* C28: after a step of 8xy4, 8xy5, 8xy6, 8xy7, 8xyE or Dxyn, VF is 0 or 1,
\* for every x and y; with x = F the flag overwrites the arithmetic result.
C28_FlagWins ==
    [][ last'.op \in FlagOps /\ Cycle => C8_V'[C8_VF] \in {0, 1} ]_vars

\* 8F04 has run with V0 = 255: the sum written to VF is not 1, the carry is
C28_FlagOverSum ==
    /\ last.op = "C8_ADD_VX_VY" /\ last.x = C8_VF
    /\ (last.opcode \div 16) % 16 = 0
    /\ C8_V[0] = 255 /\ C8_V[C8_VF] = 1

=============================================================================
